---- MODULE Spec2Model ----
(***************************************************************************)
(* Verification model of the batch extraction pipeline:                    *)
(*   - retry_with_backoff / exponential_backoff (gspread_from_s3.py,       *)
(*     boto3-s3.py),                                                       *)
(*   - extract_gz_content (gspread_from_s3.py),                            *)
(*   - CommonCrawlProcessor.query_index / save_to_s3 / process_with_dask   *)
(*     (commoncrawl-processor.py).                                         *)
(* Each component is a state machine with its own specification            *)
(* (SpecRetry, SpecExtract, SpecFanout); the variables of the other        *)
(* components stay at their initial values.                                *)
(***************************************************************************)
EXTENDS Integers, Sequences, FiniteSets, TLC

(***************************************************************************)
(* Bounds of the model                                                     *)
(***************************************************************************)
\* largest max_attempts a caller passes to retry_with_backoff
MaxAttemptsBound == 11
\* clock ticks per second: waits are measured in 1/JitterScale seconds
JitterScale == 2
\* largest number of pieces of a storage key
MaxKeyLen == 2
\* largest number of records in an archive container
MaxStream == 3
\* largest max_records passed to extract_gz_content
MaxBudget == 2
\* largest number of URL patterns in target_urls
MaxPatterns == 2
\* largest number of snapshots in self.indexes
MaxSnapshots == 2
\* largest number of worker threads of the dask Client
MaxPool == 2
\* largest number of lines in a response body given to query_index alone
MaxBodyLines == 3
\* largest number of buckets a listing holds
MaxBuckets == 2
\* largest number of storage objects get_s3_folders_and_contents visits
MaxItems == 2
\* largest number of folders a reporting script finds in the bucket
MaxSheetFolders == 1
\* largest number of records in the list given to a categorizer
MaxRecords == 3
\* decoded texts have lengths 0..TextSpread and TRUNCATE -/+ TextSpread
TextSpread == 8

(***************************************************************************)
(* Program constants                                                       *)
(***************************************************************************)
\* min(300, ...) in exponential_backoff
CAP == 300
\* default of retry_with_backoff(func, max_attempts=5)
DefaultMaxAttempts == 5
\* e.response.status_code == 429
RATE_LIMIT_STATUS == 429
\* utilization_data['PutRequests'] < 100
PutThreshold == 100
\* utilization_data['BytesUploaded'] < 1024 * 1024 * 100
BytesThreshold == 1024 * 1024 * 100
\* sum(utilization_data.values()) < 1000
ActivityThreshold == 1000
\* def extract_gz_content(s3_client, key, max_records=5)
DefaultMaxRecords == 5
\* SUBFOLDER_TYPES = ['text/', 'warc/', 'wat/', 'wet/']: worksheets per folder
NSubfolderTypes == 4
\* the rows update_google_sheet appends before the folder rows
HeaderRows == 2
\* the slice [:500] of the Content field
TRUNCATE == 500

VARIABLES
    \* ---- retry_with_backoff ----
    rpc,            \* position: "loop", "call", "backoff", "returned", "raised"
    max_attempts,   \* the parameter max_attempts
    attempt,        \* the loop variable of  for attempt in range(max_attempts)
    calls,          \* number of invocations func() so far
    waits,          \* number of time.sleep(wait_time) performed so far
    wait_time,      \* the last wait, in ticks
    rate_hits,      \* number of invocations that failed with APIError 429
    other_errors,   \* number of invocations that failed with any other error
    last_outcome,   \* outcome of the last invocation of func
    op_value,       \* value returned by the last successful func()
    result,         \* value returned by retry_with_backoff
    raised,         \* error raised by retry_with_backoff
    \* ---- extract_gz_content ----
    epc,            \* position: "fetch", "iter", "body", "done"
    key,            \* the storage key, a sequence of key pieces
    max_records,    \* the parameter max_records
    stream_read,    \* the records ArchiveIterator has yielded so far
    extracted_data, \* the list extracted_data
    returned,       \* the list extract_gz_content returned
    efailure,       \* "none", or what made the outer except run
    \* ---- CommonCrawlProcessor.process_with_dask ----
    fpc,            \* position: "start", "index_loop", "folder_loop",
                    \* "compute", "done", "failed"
    target_urls,    \* number of URL patterns in target_urls
    indexes,        \* number of snapshots in self.indexes
    pool,           \* number of worker threads of the dask Client
    client_open,    \* TRUE between Client() and client.close()
    index,          \* position of the loop variable index in self.indexes
    folder,         \* position of folder_name in folders (0 before the first)
    task,           \* per pattern: "idle", "pending", "running", "done"
    qfail,          \* per pattern: its request raised or answered non-200
    qres,           \* per pattern: what query_index returned
    queries,        \* per pattern: requests.get calls issued for the
                    \* current snapshot
    batches,        \* per folder, for the current snapshot: "none", or
                    \* "empty" / "nonempty" once its batch was built
    puts,           \* per folder: put_object calls issued with a key of the
                    \* current snapshot
    all_records,    \* the list all_records handed to save_to_s3 (a local of
                    \* one round of the folder loop)
    save_result,    \* what that save_to_s3 call did
    had_failure,    \* TRUE once a query met a transport error or a non-200
    stub,           \* the table a deterministic index answers from, or "none"
    put_key,        \* Key of the put_object of the current save_to_s3
    save_return,    \* what the current save_to_s3 call gave its caller
    last_print,     \* the last message printed by the thread that runs
                    \* process_with_dask (query_index prints in the workers)
    \* ---- one application of a categorizer (a lambda of folders) ----
    cpc,            \* position: "call", "done"
    cat_folder,     \* position of the folder whose lambda is applied
    cat_in,         \* the record list the lambda is given
    cat_list,       \* the content of that list object after the call
    cat_out,        \* the list the lambda returned
    \* ---- the Content field of one output record of extract_gz_content ----
    tpc,            \* position: "decoded", "done"
    t_kind,         \* the branch: "WAT", "WET", "WARC"
    t_len,          \* length of the record's decoded text
    t_content,      \* the Content field: the characters lo..hi of that text
    \* ---- one call of query_index on one response ----
    qpc,            \* position: "call", "done"
    q_resp,         \* what requests.get did
    q_out,          \* what query_index returned
    \* ---- the worksheet an operation under retry_with_backoff writes ----
    worksheet,      \* "n/a" (no worksheet), "old", "cleared", "new"
    \* ---- a run of a reporting script (gspread_from_s3.py, boto3-s3.py) ----
    script,         \* the file that is run
    spc,            \* position in the script
    n_folders,      \* number of folders the listing returned
    sheets_done,    \* worksheets written by update_google_sheets so far
    rows_done,      \* rows appended by update_google_sheet so far
    unguarded,      \* the last spreadsheet write issued outside the retrier
    main_error,     \* TRUE once a main printed "An error occurred"
    \* ---- get_s3_folders_and_contents ----
    wpc,            \* position: "start", "next_item", "extracting",
                    \* "returned", "raised"
    n_items,        \* number of storage objects the listing yields
    item,           \* position of the loop variable item (0 before the first)
    contents,       \* the rows appended so far, each the position of its item
    item_failure,   \* per finished item: what made extract_gz_content fail
    \* ---- ServiceUtilizationAnalyzer.generate_report ----
    apc,            \* position: "start", "utilization", "configurations",
                    \* "prompt", "disable", "recommend", "done", "error"
    n_buckets,      \* number of buckets in the list the loop runs over
    bucket,         \* position of the loop variable bucket (0 before the first)
    datapoint,      \* per metric: what get_metric_statistics did for bucket
    utilization_data, \* per metric: what utilization_data[metric] reads
    config_status,  \* the dict config_status of bucket
    response,       \* what the operator typed at the prompt for bucket
    actions_taken   \* the features disable_unused_features suspended

retryVars == <<rpc, max_attempts, attempt, calls, waits, wait_time, rate_hits,
               other_errors, last_outcome, op_value, result, raised, worksheet>>

scriptVars == <<script, spc, n_folders, sheets_done, rows_done, unguarded,
                main_error>>

walkVars == <<wpc, n_items, item, contents, item_failure>>

auxVars == <<script, spc, n_folders, sheets_done, rows_done, unguarded,
             main_error,
             wpc, n_items, item, contents, item_failure,
             apc, n_buckets, bucket, datapoint, utilization_data,
             config_status, response, actions_taken>>

analyzerVars == <<apc, n_buckets, bucket, datapoint, utilization_data,
                  config_status, response, actions_taken>>

extractVars == <<epc, key, max_records, stream_read, extracted_data, returned,
                 efailure>>

fanoutVars == <<fpc, target_urls, indexes, pool, client_open, index, folder,
                task, qfail, qres, queries, batches, puts, all_records,
                save_result, had_failure, stub, put_key, save_return,
                last_print>>

parseVars == <<qpc, q_resp, q_out>>

pureVars == <<cpc, cat_folder, cat_in, cat_list, cat_out,
              tpc, t_kind, t_len, t_content, qpc, q_resp, q_out>>

vars == <<rpc, max_attempts, attempt, calls, waits, wait_time, rate_hits,
          other_errors, last_outcome, op_value, result, raised,
          epc, key, max_records, stream_read, extracted_data, returned,
          efailure,
          fpc, target_urls, indexes, pool, client_open, index, folder,
          task, qfail, qres, queries, batches, puts, all_records,
          save_result, had_failure, stub, put_key, save_return,
          last_print,
          cpc, cat_folder, cat_in, cat_list, cat_out,
          tpc, t_kind, t_len, t_content, qpc, q_resp, q_out,
          worksheet,
          script, spc, n_folders, sheets_done, rows_done, unguarded,
          main_error,
          wpc, n_items, item, contents, item_failure,
          apc, n_buckets, bucket, datapoint, utilization_data, config_status,
          response, actions_taken>>

Min(a, b) == IF a <= b THEN a ELSE b

RECURSIVE Pow2(_)
Pow2(n) == IF n <= 0 THEN 1 ELSE 2 * Pow2(n - 1)

(***************************************************************************)
(* retry_with_backoff                                                      *)
(***************************************************************************)
\* what one invocation of func() can do: return a value, raise
\* gspread.exceptions.APIError with status 429 or with another status, or
\* raise an exception of another type
Outcomes == {"ok", "api429", "api500", "exc"}
Values == {"v1", "v2"}
NoValue == "none"

\* except gspread.exceptions.APIError as e
IsAPIError(o) == o \in {"api429", "api500"}

\* e.response.status_code
status_code(o) == IF o = "api429" THEN 429 ELSE IF o = "api500" THEN 500 ELSE 0

\* a handler that retries on every APIError, whatever its status
RetriesOnAnyAPIError(o) == IsAPIError(o)

\* the handler retries:  except APIError as e: if e.response.status_code == 429
RetriesOn(o) == IsAPIError(o) /\ status_code(o) = RATE_LIMIT_STATUS

\* uniform(0, 1): a value N with 0 <= N <= 1, in ticks
Jitter == 0..JitterScale

\* a backoff that grows linearly instead of exponentially
backoff_wait_linear(a, j) == Min(CAP * JitterScale, 2 * a * JitterScale + j)

\* a backoff without the cap: wait_time = (2 ** attempt) + uniform(0, 1)
backoff_wait_uncapped(a, j) == Pow2(a) * JitterScale + j

\* wait_time = min(300, (2 ** attempt) + uniform(0, 1)), in ticks
backoff_wait(a, j) == Min(CAP * JitterScale, Pow2(a) * JitterScale + j)

\* an off-by-one loop bound: one attempt too many
InRangeInclusive(a, m) == a <= m

\* for attempt in range(max_attempts): the loop body runs for this attempt
InRange(a, m) == a < m

\* no call of retry_with_backoff is in progress
RetryIdle ==
    /\ rpc = "idle" /\ max_attempts = 0 /\ attempt = 0 /\ calls = 0
    /\ waits = 0 /\ wait_time = 0 /\ rate_hits = 0 /\ other_errors = 0
    /\ last_outcome = NoValue /\ op_value = NoValue /\ result = NoValue
    /\ raised = NoValue /\ worksheet = "n/a"

\* no reporting script is run
ScriptIdle ==
    /\ script = "none" /\ spc = "idle" /\ n_folders = 0 /\ sheets_done = 0
    /\ rows_done = 0 /\ unguarded = "none" /\ main_error = FALSE

\* no call of get_s3_folders_and_contents is in progress
WalkIdle ==
    /\ wpc = "idle" /\ n_items = 0 /\ item = 0 /\ contents = <<>>
    /\ item_failure = <<>>

Metrics == {"GetRequests", "PutRequests", "BytesUploaded"}
Features == {"Versioning", "TransferAcceleration", "Analytics"}

\* no bucket is being analysed
NoBucket ==
    /\ datapoint = [m \in Metrics |-> [kind |-> "empty", sum |-> 0]]
    /\ utilization_data = [m \in Metrics |-> 0]
    /\ config_status = [f \in Features |-> FALSE]
    /\ response = "none"
    /\ actions_taken = {}

\* no call of generate_report is in progress
AnalyzerIdle ==
    /\ apc = "idle" /\ n_buckets = 0 /\ bucket = 0 /\ NoBucket

AuxIdle == ScriptIdle /\ WalkIdle /\ AnalyzerIdle

\* no call of extract_gz_content is in progress
ExtractIdle ==
    /\ epc = "idle" /\ key = <<>> /\ max_records = 0 /\ stream_read = <<>>
    /\ extracted_data = <<>> /\ returned = <<>> /\ efailure = "none"

\* the line-delimited body of an index response: a line is empty, malformed,
\* or the JSON object of one record
EmptyLine == [type |-> "empty", status |-> "", mime |-> ""]
BadLine == [type |-> "bad", status |-> "", mime |-> ""]
JsonLines == [type : {"json"}, status : {"200", "404"},
              mime : {"text/html", "application/pdf"}]
Lines == {EmptyLine, BadLine} \cup JsonLines
\* the bodies the index answers with here: no line, or one line
Texts == {<<>>} \cup {<<l>> : l \in Lines}

\* what requests.get does: raises, or answers with a status and a body
Responses ==
    {[kind |-> "error", status_code |-> 0, text |-> <<>>],
     [kind |-> "http", status_code |-> 503, text |-> <<>>]}
    \cup [kind : {"http"}, status_code : {200}, text : Texts]

NoResult == [raised |-> FALSE, records |-> <<>>]

\* the keys of the dict folders, in insertion order
FolderNames == <<"process_crawl", "explore_crawl", "raw_data", "processed_data">>
NFolders == Len(FolderNames)

Patterns == 1..MaxPatterns

\* datetime.now().strftime('%Y%m%d_%H%M%S') at two moments
Timestamps == {"20250101_120000", "20250101_120001"}

\* no put_object was issued by the current save_to_s3
NoKey == [folder_name |-> "", index |-> 0, timestamp |-> ""]

\* a key without the snapshot: f'{folder_name}/{timestamp}.parquet'
object_key_no_index(f, i, ts) ==
    [folder_name |-> FolderNames[f], index |-> 0, timestamp |-> ts]

\* key = f'{folder_name}/{index}/{timestamp}.parquet': the path segments
object_key(f, i, ts) ==
    [folder_name |-> FolderNames[f], index |-> i, timestamp |-> ts]

\* save_to_s3 has not returned
NotReturned == [value |-> "", raised |-> FALSE]

\* what a save_to_s3 that reached put_object gives its caller: the function
\* has no return statement after the try, and the except clause catches the
\* error of put_object and prints it
save_outcome(put_ok) == [value |-> "None", raised |-> FALSE]

\* a save_to_s3 whose except clause is missing
put_failure_escapes == FALSE

\* except Exception as e: the error of put_object does not leave save_to_s3
put_failure_caught == TRUE

\* no run of process_with_dask is in progress
FanoutIdle ==
    /\ fpc = "idle" /\ target_urls = 0 /\ indexes = 0 /\ pool = 0
    /\ client_open = FALSE /\ index = 0 /\ folder = 0
    /\ task = [p \in Patterns |-> "idle"]
    /\ qfail = [p \in Patterns |-> FALSE]
    /\ qres = [p \in Patterns |-> NoResult]
    /\ queries = [p \in Patterns |-> 0]
    /\ batches = [f \in 1..NFolders |-> "none"]
    /\ puts = [f \in 1..NFolders |-> 0]
    /\ all_records = <<>>
    /\ save_result = "none"
    /\ had_failure = FALSE
    /\ stub = "none" /\ put_key = NoKey /\ save_return = NotReturned
    /\ last_print = "none"

\* no categorizer is being applied and no Content field is being built
NoSubstring == [lo |-> 1, hi |-> 0]
NoResponse == [kind |-> "none", status_code |-> 0, text |-> <<>>]

\* no call of query_index on its own is in progress
ParseIdle == qpc = "idle" /\ q_resp = NoResponse /\ q_out = NoResult

PureIdle ==
    /\ cpc = "idle" /\ cat_folder = 0 /\ cat_in = <<>> /\ cat_list = <<>>
    /\ cat_out = <<>>
    /\ tpc = "idle" /\ t_kind = "NONE" /\ t_len = 0 /\ t_content = NoSubstring
    /\ ParseIdle

InitRetry ==
    /\ ExtractIdle /\ FanoutIdle /\ PureIdle /\ AuxIdle
    /\ rpc = "loop"
    /\ max_attempts \in 0..MaxAttemptsBound
    /\ attempt = 0
    /\ calls = 0
    /\ waits = 0
    /\ wait_time = 0
    /\ rate_hits = 0
    /\ other_errors = 0
    /\ last_outcome = NoValue
    /\ op_value = NoValue
    /\ result = NoValue
    /\ raised = NoValue
    /\ worksheet = "n/a"

\* head of  for attempt in range(max_attempts); after the loop:
\* raise Exception("Max retry attempts reached")
LoopHead ==
    /\ rpc = "loop"
    /\ IF InRange(attempt, max_attempts)
         THEN rpc' = "call" /\ raised' = raised
         ELSE rpc' = "raised" /\ raised' = "exhausted"
    /\ UNCHANGED <<max_attempts, attempt, calls, waits, wait_time, rate_hits,
                   other_errors, last_outcome, op_value, result, worksheet>>
    /\ UNCHANGED <<extractVars, fanoutVars, pureVars, auxVars>>

\* try: return func()  except APIError as e: if 429: ... else: raise
\* (rate_hits and other_errors count what func did; the handler decides with
\* RetriesOn what happens next; w is the worksheet as func left it)
Invoke(o, v, w) ==
    /\ rpc = "call"
    /\ worksheet' = w
    /\ calls' = calls + 1
    /\ last_outcome' = o
    /\ rate_hits' = IF o = "api429" THEN rate_hits + 1 ELSE rate_hits
    /\ other_errors' = IF o \in {"api500", "exc"} THEN other_errors + 1
                                                   ELSE other_errors
    /\ IF o = "ok"
         THEN /\ op_value' = v
              /\ result' = v
              /\ rpc' = "returned"
              /\ UNCHANGED raised
         ELSE IF RetriesOn(o)
         THEN /\ rpc' = "backoff"
              /\ UNCHANGED <<op_value, result, raised>>
         ELSE /\ raised' = o
              /\ rpc' = "raised"
              /\ UNCHANGED <<op_value, result>>
    /\ UNCHANGED <<max_attempts, attempt, waits, wait_time>>
    /\ UNCHANGED <<extractVars, fanoutVars, pureVars, auxVars>>

\* exponential_backoff(attempt); continue
Backoff(j) ==
    /\ rpc = "backoff"
    /\ wait_time' = backoff_wait(attempt, j)
    /\ waits' = waits + 1
    /\ attempt' = attempt + 1
    /\ rpc' = "loop"
    /\ UNCHANGED <<max_attempts, calls, rate_hits, other_errors, last_outcome,
                   op_value, result, raised, worksheet>>
    /\ UNCHANGED <<extractVars, fanoutVars, pureVars, auxVars>>

NextRetry ==
    \/ LoopHead
    \/ \E o \in Outcomes, v \in Values : Invoke(o, v, worksheet)
    \/ \E j \in Jitter : Backoff(j)

SpecRetry == InitRetry /\ [][NextRetry]_vars

\* The call runs sequentially: func() returns or raises and time.sleep ends,
\* so a step that is possible is eventually taken.
SpecRetryFair == SpecRetry /\ WF_vars(NextRetry)


(***************************************************************************)
(* extract_gz_content                                                      *)
(***************************************************************************)
\* A storage key is a sequence of pieces: the three extensions the code looks
\* for, and "x" for any text that contains none of them.
KeyPieces == {".wat.gz", ".wet.gz", ".warc.gz", "x"}
Keys == UNION {[1..n -> KeyPieces] : n \in 1..MaxKeyLen}

\* record.rec_type of the records of an archive
RecTypes == {"warcinfo", "metadata", "conversion", "response"}
\* what record.content_stream().read() holds: JSON text, other UTF-8 text, or
\* bytes that are not valid UTF-8; "unread" while the content was never read
Bodies == {"json", "text", "bytes"}

\* '.wat.gz' in key: the extension occurs anywhere in the key
key_has(k, ext) == \E i \in 1..Len(k) : k[i] = ext

\* the if / elif / elif chain on the key
branch(k) ==
    IF key_has(k, ".wat.gz") THEN "WAT"
    ELSE IF key_has(k, ".wet.gz") THEN "WET"
    ELSE IF key_has(k, ".warc.gz") THEN "WARC"
    ELSE "NONE"

\* if record.rec_type == 'metadata' / 'conversion' / 'response'
selected_type(kind) ==
    CASE kind = "WAT" -> "metadata"
      [] kind = "WET" -> "conversion"
      [] kind = "WARC" -> "response"
      [] OTHER -> "nothing"

\* the try block of a record: .decode('utf-8') and json.loads for WAT,
\* .decode('utf-8') for WET, .decode('utf-8', errors='ignore') for WARC
decodes(kind, b) ==
    CASE kind = "WAT" -> b = "json"
      [] kind = "WET" -> b \in {"json", "text"}
      [] kind = "WARC" -> b \in Bodies
      [] OTHER -> FALSE

\* a budget test that lets one record too many through
budget_exceeded(n, m) == n > m

\* if len(extracted_data) >= max_records: break
budget_reached(n, m) == n >= m

\* a record error that leaves the loop and reaches the outer handler
record_error_aborts == "abort"

\* an extract_gz_content without the outer handler: the error propagates
extract_error_propagates == "raise"

\* except Exception as e: print(...); return []   (around the whole body)
on_extract_error == "return_empty"

\* except Exception as e: print(...); continue   (per record)
on_record_error == "continue"

InitExtract ==
    /\ RetryIdle /\ FanoutIdle /\ PureIdle /\ AuxIdle
    /\ epc = "fetch"
    /\ key \in Keys
    /\ max_records \in 0..MaxBudget
    /\ stream_read = <<>>
    /\ extracted_data = <<>>
    /\ returned = <<>>
    /\ efailure = "none"

\* s3_client.get_object(...)['Body'].read() and the choice of the branch; a
\* failure runs the outer  except Exception: return []
Fetch(ok) ==
    /\ epc = "fetch"
    /\ IF ~ok
         THEN /\ efailure' = "fetch"
              /\ IF on_extract_error = "return_empty"
                   THEN epc' = "done" /\ returned' = <<>>
                   ELSE epc' = "raised" /\ UNCHANGED returned
         ELSE IF branch(key) = "NONE"
         THEN epc' = "done" /\ efailure' = efailure
              /\ returned' = extracted_data
         ELSE epc' = "iter" /\ UNCHANGED <<efailure, returned>>
    /\ UNCHANGED <<key, max_records, stream_read, extracted_data>>
    /\ UNCHANGED <<retryVars, fanoutVars, pureVars, auxVars>>

\* for record in ArchiveIterator(gz_file): the iterator yields a record
ReadRecord(t) ==
    /\ epc = "iter"
    /\ Len(stream_read) < MaxStream
    /\ stream_read' = Append(stream_read, [rec_type |-> t, body |-> "unread"])
    /\ epc' = "body"
    /\ UNCHANGED <<key, max_records, extracted_data, returned, efailure>>
    /\ UNCHANGED <<retryVars, fanoutVars, pureVars, auxVars>>

\* the iterator is exhausted: return extracted_data
EndOfStream ==
    /\ epc = "iter"
    /\ epc' = "done"
    /\ returned' = extracted_data
    /\ UNCHANGED <<key, max_records, stream_read, extracted_data, efailure>>
    /\ UNCHANGED <<retryVars, fanoutVars, pureVars, auxVars>>

\* gzip or the archive iterator raises: the outer  except Exception: return []
StreamError ==
    /\ epc = "iter"
    /\ efailure' = "stream"
    /\ IF on_extract_error = "return_empty"
         THEN epc' = "done" /\ returned' = <<>>
         ELSE epc' = "raised" /\ UNCHANGED returned
    /\ UNCHANGED <<key, max_records, stream_read, extracted_data>>
    /\ UNCHANGED <<retryVars, fanoutVars, pureVars, auxVars>>

\* the body of the for loop for the record just read, whose content is b
LoopBody(b) ==
    LET n == Len(stream_read)
        rec == stream_read[n]
        kind == branch(key)
    IN
    /\ epc = "body"
    /\ IF budget_reached(Len(extracted_data), max_records)
         THEN \* break; return extracted_data
              /\ epc' = "done"
              /\ returned' = extracted_data
              /\ UNCHANGED <<stream_read, extracted_data, efailure>>
         ELSE IF rec.rec_type # selected_type(kind)
         THEN /\ epc' = "iter"
              /\ UNCHANGED <<stream_read, extracted_data, returned, efailure>>
         ELSE /\ stream_read' = [stream_read EXCEPT ![n].body = b]
              /\ IF decodes(kind, b)
                   THEN /\ extracted_data' =
                             Append(extracted_data, [Type |-> kind, src |-> n])
                        /\ epc' = "iter"
                        /\ UNCHANGED <<returned, efailure>>
                   ELSE IF on_record_error = "continue"
                   THEN /\ epc' = "iter"
                        /\ UNCHANGED <<extracted_data, returned, efailure>>
                   ELSE /\ efailure' = "record"
                        /\ IF on_extract_error = "return_empty"
                             THEN epc' = "done" /\ returned' = <<>>
                             ELSE epc' = "raised" /\ UNCHANGED returned
                        /\ UNCHANGED extracted_data
    /\ UNCHANGED <<key, max_records>>
    /\ UNCHANGED <<retryVars, fanoutVars, pureVars, auxVars>>

NextExtract ==
    \/ \E ok \in BOOLEAN : Fetch(ok)
    \/ \E t \in RecTypes : ReadRecord(t)
    \/ EndOfStream
    \/ StreamError
    \/ \E b \in Bodies : LoopBody(b)

SpecExtract == InitExtract /\ [][NextExtract]_vars


(***************************************************************************)
(* CommonCrawlProcessor: query_index, save_to_s3, process_with_dask        *)
(***************************************************************************)
\* response.text.strip().split('\n') ... if line: the non-empty lines
NonEmptyLines(text) == SelectSeq(text, LAMBDA l : l.type # "empty")

\* json.loads(line) of a well-formed line
Record(l) == [status |-> l.status, mime |-> l.mime]

\* requests.get raised, or response.status_code is not 200
failed_response(resp) == resp.kind = "error" \/ resp.status_code # 200

\* query_index without its try/except: errors reach the caller
query_index_unguarded(resp) ==
    IF resp.kind = "error" THEN [raised |-> TRUE, records |-> <<>>]
    ELSE IF resp.status_code # 200 THEN [raised |-> TRUE, records |-> <<>>]
    ELSE LET ls == NonEmptyLines(resp.text) IN
         IF \E k \in 1..Len(ls) : ls[k].type = "bad"
           THEN [raised |-> TRUE, records |-> <<>>]
           ELSE [raised |-> FALSE,
                 records |-> [k \in 1..Len(ls) |-> Record(ls[k])]]

\* query_index: requests.get raising, or json.loads raising on a line, ends
\* in the except clause and return []; a non-200 status falls through to
\* return []
query_index(resp) ==
    IF resp.kind = "error" THEN [raised |-> FALSE, records |-> <<>>]
    ELSE IF resp.status_code # 200 THEN [raised |-> FALSE, records |-> <<>>]
    ELSE LET ls == NonEmptyLines(resp.text) IN
         IF \E k \in 1..Len(ls) : ls[k].type = "bad"
           THEN [raised |-> FALSE, records |-> <<>>]
           ELSE [raised |-> FALSE,
                 records |-> [k \in 1..Len(ls) |-> Record(ls[k])]]

\* categorizers whose status filter keeps the wrong records
processor_func_inverted(f, x) ==
    CASE FolderNames[f] = "process_crawl" -> x
      [] FolderNames[f] = "explore_crawl" ->
            SelectSeq(x, LAMBDA r : r.status # "200")
      [] FolderNames[f] = "raw_data" -> x
      [] FolderNames[f] = "processed_data" ->
            SelectSeq(x, LAMBDA r : r.mime = "text/html")

\* the lambdas of the dict folders
processor_func(f, x) ==
    CASE FolderNames[f] = "process_crawl" -> x
      [] FolderNames[f] = "explore_crawl" ->
            SelectSeq(x, LAMBDA r : r.status = "200")
      [] FolderNames[f] = "raw_data" -> x
      [] FolderNames[f] = "processed_data" ->
            SelectSeq(x, LAMBDA r : r.mime = "text/html")

\* all_records = [item for sublist in processed_records for item in sublist]
RECURSIVE Flatten(_, _, _)
Flatten(f, res, p) ==
    IF p > target_urls THEN <<>>
    ELSE processor_func(f, res[p].records) \o Flatten(f, res, p + 1)

\* a save_to_s3 that writes empty batches too
skips_nothing(data) == FALSE

\* a save_to_s3 that also drops a batch of one record
skips_short(data) == Len(data) <= 1

\* if not data: return
skips_write(data) == data = <<>>

InitFanout ==
    /\ RetryIdle /\ ExtractIdle /\ PureIdle /\ AuxIdle
    /\ fpc = "start"
    /\ target_urls \in 1..MaxPatterns
    /\ indexes \in 1..MaxSnapshots
    /\ pool \in 1..MaxPool
    /\ client_open = FALSE /\ index = 0 /\ folder = 0
    /\ task = [p \in Patterns |-> "idle"]
    /\ qfail = [p \in Patterns |-> FALSE]
    /\ qres = [p \in Patterns |-> NoResult]
    /\ queries = [p \in Patterns |-> 0]
    /\ batches = [f \in 1..NFolders |-> "none"]
    /\ puts = [f \in 1..NFolders |-> 0]
    /\ all_records = <<>>
    /\ save_result = "none"
    /\ had_failure = FALSE
    /\ stub = "none" /\ put_key = NoKey /\ save_return = NotReturned
    /\ last_print = "none"

\* client = Client()
OpenClient ==
    /\ fpc = "start"
    /\ client_open' = TRUE
    /\ fpc' = "index_loop"
    /\ UNCHANGED <<target_urls, indexes, pool, index, folder, task, qfail,
                   qres, queries, batches, puts, all_records, save_result,
                   had_failure>>
    /\ UNCHANGED <<stub, put_key, save_return, last_print>>
    /\ UNCHANGED <<retryVars, extractVars, pureVars, auxVars>>

\* for index in self.indexes: the next snapshot, or the end of the loop and
\* finally: client.close()
NextIndex ==
    /\ fpc = "index_loop"
    /\ IF index < indexes
         THEN /\ index' = index + 1
              /\ folder' = 0
              /\ fpc' = "folder_loop"
              /\ queries' = [p \in Patterns |-> 0]
              /\ batches' = [f \in 1..NFolders |-> "none"]
              /\ puts' = [f \in 1..NFolders |-> 0]
              /\ UNCHANGED client_open
         ELSE /\ fpc' = "done"
              /\ client_open' = FALSE
              /\ UNCHANGED <<index, folder, queries, batches, puts>>
    /\ UNCHANGED <<target_urls, indexes, pool, task, qfail, qres, all_records,
                   save_result, had_failure>>
    /\ last_print' = IF index < indexes THEN "processing_index" ELSE last_print
    /\ UNCHANGED <<stub, put_key, save_return>>
    /\ UNCHANGED <<retryVars, extractVars, pureVars, auxVars>>

\* a folder loop that leaves out the last folder
more_folders_but_last(f) == f < NFolders - 1

\* for folder_name, processor_func in folders.items(): a folder is left
more_folders(f) == f < NFolders

\* for folder_name, processor_func in folders.items(): the next folder, whose
\* records_bag.map(processor_func).compute() submits one task per pattern
NextFolder ==
    /\ fpc = "folder_loop"
    /\ IF more_folders(folder)
         THEN /\ folder' = folder + 1
              /\ task' = [p \in Patterns |->
                            IF p <= target_urls THEN "pending" ELSE "idle"]
              /\ fpc' = "compute"
         ELSE /\ fpc' = "index_loop"
              /\ UNCHANGED <<folder, task>>
    /\ qfail' = [p \in Patterns |-> FALSE]
    /\ qres' = [p \in Patterns |-> NoResult]
    /\ all_records' = <<>>
    /\ save_result' = "none"
    /\ UNCHANGED <<target_urls, indexes, pool, client_open, index, queries,
                   batches, puts, had_failure>>
    /\ last_print' = IF more_folders(folder) THEN "processing_folder"
                                               ELSE last_print
    /\ put_key' = NoKey
    /\ save_return' = NotReturned
    /\ UNCHANGED stub
    /\ UNCHANGED <<retryVars, extractVars, pureVars, auxVars>>

Running == {p \in Patterns : task[p] = "running"}

\* a scheduler that starts a task when at most all threads are busy
worker_free_or_full(busy, size) == busy <= size

\* the scheduler of the Client starts a task only on a thread that is free
worker_free(busy, size) == busy < size

\* a worker thread takes the task of pattern p: self.query_index(url, index)
\* issues requests.get
QueryStart(p) ==
    /\ fpc = "compute"
    /\ task[p] = "pending"
    /\ worker_free(Cardinality(Running), pool)
    /\ task' = [task EXCEPT ![p] = "running"]
    /\ queries' = [queries EXCEPT ![p] = @ + 1]
    /\ UNCHANGED <<fpc, target_urls, indexes, pool, client_open, index, folder,
                   qfail, qres, batches, puts, all_records, save_result,
                   had_failure>>
    /\ UNCHANGED <<stub, put_key, save_return, last_print>>
    /\ UNCHANGED <<retryVars, extractVars, pureVars, auxVars>>

\* the request of pattern p ends with resp and query_index returns; an error
\* leaving query_index fails the compute and the finally closes the client
QueryEnd(p, resp) ==
    /\ fpc = "compute"
    /\ task[p] = "running"
    /\ task' = [task EXCEPT ![p] = "done"]
    /\ qfail' = [qfail EXCEPT ![p] = failed_response(resp)]
    /\ qres' = [qres EXCEPT ![p] = query_index(resp)]
    /\ had_failure' = (had_failure \/ failed_response(resp))
    /\ IF query_index(resp).raised
         THEN fpc' = "failed" /\ client_open' = FALSE
         ELSE UNCHANGED <<fpc, client_open>>
    /\ UNCHANGED <<target_urls, indexes, pool, index, folder, queries, batches,
                   puts, all_records, save_result>>
    /\ UNCHANGED <<stub, put_key, save_return, last_print>>
    /\ UNCHANGED <<retryVars, extractVars, pureVars, auxVars>>

\* compute() returns; the results are flattened, which is their last use, and
\* self.save_to_s3(all_records, folder_name, index) runs: nothing for an empty
\* list, else one put_object, whose failure is caught and printed
Save(put_ok, ts) ==
    LET data == Flatten(folder, qres, 1)
        escapes == ~skips_write(data) /\ ~put_ok /\ ~put_failure_caught
    IN
    /\ fpc = "compute"
    /\ \A p \in Patterns : task[p] \in {"done", "idle"}
    /\ all_records' = data
    /\ batches' = [batches EXCEPT ![folder] =
                      IF data = <<>> THEN "empty" ELSE "nonempty"]
    /\ IF skips_write(data)
         THEN /\ save_result' = "nothing"
              /\ save_return' = [value |-> "None", raised |-> FALSE]
              /\ put_key' = NoKey
              /\ UNCHANGED <<puts, last_print>>
         ELSE /\ puts' = [puts EXCEPT ![folder] = @ + 1]
              /\ put_key' = object_key(folder, index, ts)
              /\ save_result' = IF put_ok THEN "saved" ELSE "put_failed"
              /\ save_return' = IF escapes
                                  THEN [value |-> "", raised |-> TRUE]
                                  ELSE save_outcome(put_ok)
              /\ last_print' = IF put_ok THEN "saved"
                               ELSE IF escapes THEN last_print
                               ELSE "error_saving"
    /\ task' = [p \in Patterns |-> "idle"]
    /\ IF escapes
         THEN fpc' = "failed" /\ client_open' = FALSE
         ELSE fpc' = "folder_loop" /\ UNCHANGED client_open
    /\ qfail' = [p \in Patterns |-> FALSE]
    /\ qres' = [p \in Patterns |-> NoResult]
    /\ UNCHANGED <<target_urls, indexes, pool, index, folder, queries,
                   had_failure, stub>>
    /\ UNCHANGED <<retryVars, extractVars, pureVars, auxVars>>

NextFanout ==
    \/ OpenClient
    \/ NextIndex
    \/ NextFolder
    \/ \E p \in Patterns : QueryStart(p)
    \/ \E p \in Patterns, resp \in Responses : QueryEnd(p, resp)
    \/ \E put_ok \in BOOLEAN, ts \in Timestamps : Save(put_ok, ts)

SpecFanout == InitFanout /\ [][NextFanout]_vars

(***************************************************************************)
(* process_with_dask with the errors that leave the try block              *)
(***************************************************************************)
\* SpecFanout runs on index records that are JSON objects and on batches that
\* serialize; here a record may be another JSON value and the preparation of
\* a write may fail, and the error leaves process_with_dask.
\* a process_with_dask that closes the client after the loop only
leaks_on_error == FALSE

\* finally: client.close() runs when an error leaves the try block
closes_on_error == TRUE

\* the folders whose lambda calls r.get on every record
Filtering == {f \in 1..NFolders :
                 FolderNames[f] \in {"explore_crawl", "processed_data"}}

\* the task of pattern p got a body with a line that is JSON but no object:
\* r.get raises in the categorizer, compute() raises, finally runs
CategorizerRaises(p) ==
    /\ fpc = "compute"
    /\ folder \in Filtering
    /\ task[p] = "running"
    /\ fpc' = "failed"
    /\ client_open' = ~closes_on_error
    /\ task' = [task EXCEPT ![p] = "done"]
    /\ UNCHANGED <<target_urls, indexes, pool, index, folder, qfail, qres,
                   queries, batches, puts, all_records, save_result,
                   had_failure, stub, put_key, save_return, last_print>>
    /\ UNCHANGED <<retryVars, extractVars, pureVars, auxVars>>

\* save_to_s3 of a non-empty batch: boto3.client('s3'), pd.DataFrame(data) or
\* df.to_parquet(buffer) raises before the try of put_object; finally runs
SaveRaises ==
    LET data == Flatten(folder, qres, 1) IN
    /\ fpc = "compute"
    /\ \A p \in Patterns : task[p] \in {"done", "idle"}
    /\ ~skips_write(data)
    /\ all_records' = data
    /\ batches' = [batches EXCEPT ![folder] = "nonempty"]
    /\ fpc' = "failed"
    /\ client_open' = ~closes_on_error
    /\ UNCHANGED <<target_urls, indexes, pool, index, folder, task, qfail,
                   qres, queries, puts, save_result, had_failure, stub,
                   put_key, save_return, last_print>>
    /\ UNCHANGED <<retryVars, extractVars, pureVars, auxVars>>

NextFanoutErr ==
    \/ NextFanout
    \/ \E p \in Patterns : CategorizerRaises(p)
    \/ SaveRaises

SpecFanoutErr == InitFanout /\ [][NextFanoutErr]_vars


(***************************************************************************)
(* process_with_dask against a deterministic index that never fails        *)
(***************************************************************************)
\* three records with statuses 200, 200, 404
ScenarioText ==
    << [type |-> "json", status |-> "200", mime |-> "text/html"],
       [type |-> "json", status |-> "200", mime |-> "application/pdf"],
       [type |-> "json", status |-> "404", mime |-> "text/html"] >>

\* the tables of a deterministic index: the same three records for every
\* query, records that depend on the pattern and the snapshot, no record
StubTables == {"scenario", "varied", "silent"}

\* response.text of the index for pattern p and snapshot s
StubText(table, p, s) ==
    CASE table = "scenario" -> ScenarioText
      [] table = "varied" ->
            IF (p + s) % 2 = 0
              THEN << [type |-> "json", status |-> "200", mime |-> "text/html"] >>
              ELSE << [type |-> "json", status |-> "404",
                       mime |-> "application/pdf"],
                      [type |-> "json", status |-> "200",
                       mime |-> "application/pdf"] >>
      [] OTHER -> <<>>

\* requests.get(cc_url, params=params) answered by the index
StubResponse(table, p, s) ==
    [kind |-> "http", status_code |-> 200, text |-> StubText(table, p, s)]

InitE2E ==
    /\ RetryIdle /\ ExtractIdle /\ PureIdle /\ AuxIdle
    /\ fpc = "start"
    /\ target_urls \in 1..MaxPatterns
    /\ indexes \in 1..MaxSnapshots
    /\ pool \in 1..MaxPool
    /\ client_open = FALSE /\ index = 0 /\ folder = 0
    /\ task = [p \in Patterns |-> "idle"]
    /\ qfail = [p \in Patterns |-> FALSE]
    /\ qres = [p \in Patterns |-> NoResult]
    /\ queries = [p \in Patterns |-> 0]
    /\ batches = [f \in 1..NFolders |-> "none"]
    /\ puts = [f \in 1..NFolders |-> 0]
    /\ all_records = <<>>
    /\ save_result = "none"
    /\ had_failure = FALSE
    /\ stub \in StubTables
    /\ put_key = NoKey /\ save_return = NotReturned
    /\ last_print = "none"

NextE2E ==
    \/ OpenClient
    \/ NextIndex
    \/ NextFolder
    \/ \E p \in Patterns : QueryStart(p)
    \/ \E p \in Patterns : QueryEnd(p, StubResponse(stub, p, index))
    \/ \E put_ok \in BOOLEAN, ts \in Timestamps : Save(put_ok, ts)

SpecE2E == InitE2E /\ [][NextE2E]_vars

(***************************************************************************)
(* One application of a categorizer: processor_func(all records of a task) *)
(***************************************************************************)
Records == {Record(l) : l \in JsonLines}
RecordLists == UNION {[1..n -> Records] : n \in 0..MaxRecords}

InitCategorize ==
    /\ RetryIdle /\ ExtractIdle /\ FanoutIdle /\ ParseIdle /\ AuxIdle
    /\ tpc = "idle" /\ t_kind = "NONE" /\ t_len = 0 /\ t_content = NoSubstring
    /\ cpc = "call"
    /\ cat_folder \in 1..NFolders
    /\ cat_in \in RecordLists
    /\ cat_list = cat_in
    /\ cat_out = <<>>

\* records_bag.map(processor_func): the lambda is applied to one list; the
\* list comprehensions build a new list and lambda x: x returns its argument,
\* neither assigns to the list given
Categorize ==
    /\ cpc = "call"
    /\ cat_out' = processor_func(cat_folder, cat_list)
    /\ cat_list' = cat_list
    /\ cpc' = "done"
    /\ UNCHANGED <<cat_folder, cat_in, tpc, t_kind, t_len, t_content>>
    /\ UNCHANGED parseVars
    /\ UNCHANGED <<retryVars, extractVars, fanoutVars, auxVars>>

NextCategorize == Categorize

SpecCategorize == InitCategorize /\ [][NextCategorize]_vars

(***************************************************************************)
(* The Content field of an output record of extract_gz_content             *)
(***************************************************************************)
\* lengths of the decoded text of a record: str(json_content) for WAT,
\* content for WET, soup.get_text() for WARC
TextLens == (0..TextSpread) \cup
            {n \in (TRUNCATE - TextSpread)..(TRUNCATE + TextSpread) : n >= 0}

\* a slice that keeps the last characters: text[-500:]
slice_tail(len) == [lo |-> IF len > TRUNCATE THEN len - TRUNCATE + 1 ELSE 1,
                    hi |-> len]

\* text[:500] of a text of len characters: its characters 1..min(len, 500)
slice_head(len) == [lo |-> 1, hi |-> Min(len, TRUNCATE)]

InitContent ==
    /\ RetryIdle /\ ExtractIdle /\ FanoutIdle /\ ParseIdle /\ AuxIdle
    /\ cpc = "idle" /\ cat_folder = 0 /\ cat_in = <<>> /\ cat_list = <<>>
    /\ cat_out = <<>>
    /\ tpc = "decoded"
    /\ t_kind \in {"WAT", "WET", "WARC"}
    /\ t_len \in TextLens
    /\ t_content = NoSubstring

\* 'Content': str(json_content)[:500] / content[:500] / soup.get_text()[:500]
BuildContent ==
    /\ tpc = "decoded"
    /\ t_content' = slice_head(t_len)
    /\ tpc' = "done"
    /\ UNCHANGED <<t_kind, t_len, cpc, cat_folder, cat_in, cat_list, cat_out>>
    /\ UNCHANGED parseVars
    /\ UNCHANGED <<retryVars, extractVars, fanoutVars, auxVars>>

NextContent == BuildContent

SpecContent == InitContent /\ [][NextContent]_vars


(***************************************************************************)
(* One call of query_index on a response whose body has several lines      *)
(***************************************************************************)
\* response.text: up to MaxBodyLines lines
Bodies200 == UNION {[1..n -> Lines] : n \in 0..MaxBodyLines}

ParseResponses ==
    {[kind |-> "error", status_code |-> 0, text |-> <<>>],
     [kind |-> "http", status_code |-> 503, text |-> <<>>]}
    \cup [kind : {"http"}, status_code : {200}, text : Bodies200]

InitParse ==
    /\ RetryIdle /\ ExtractIdle /\ FanoutIdle /\ AuxIdle
    /\ cpc = "idle" /\ cat_folder = 0 /\ cat_in = <<>> /\ cat_list = <<>>
    /\ cat_out = <<>>
    /\ tpc = "idle" /\ t_kind = "NONE" /\ t_len = 0 /\ t_content = NoSubstring
    /\ qpc = "call"
    /\ q_resp \in ParseResponses
    /\ q_out = NoResult

\* self.query_index(url, index) with requests.get doing q_resp
ParseBody ==
    /\ qpc = "call"
    /\ q_out' = query_index(q_resp)
    /\ qpc' = "done"
    /\ UNCHANGED q_resp
    /\ UNCHANGED <<cpc, cat_folder, cat_in, cat_list, cat_out,
                   tpc, t_kind, t_len, t_content>>
    /\ UNCHANGED <<retryVars, extractVars, fanoutVars, auxVars>>

NextParse == ParseBody

SpecParse == InitParse /\ [][NextParse]_vars



(***************************************************************************)
(* get_s3_folders_and_contents: the walk over the storage objects          *)
(***************************************************************************)
\* The nested loops (folder, subfolder type, page, item) visit the storage
\* objects one after the other; the model walks that one sequence.
InitWalk ==
    /\ RetryIdle /\ ExtractIdle /\ FanoutIdle /\ PureIdle /\ ScriptIdle
    /\ AnalyzerIdle
    /\ wpc = "start"
    /\ n_items = 0
    /\ item = 0
    /\ contents = <<>>
    /\ item_failure = <<>>

\* the keys of the listed objects: one for each branch of the extension test
ItemKeys == {<<piece>> : piece \in KeyPieces}

\* the row added for each record extract_gz_content returned for item i
rows_of(i, extracted_content) == [k \in 1..Len(extracted_content) |-> i]

\* get_all_folders and paginator.paginate list n storage objects, or raise
ListObjects(ok, n) ==
    /\ wpc = "start"
    /\ IF ok THEN /\ n_items' = n
                  /\ wpc' = IF n > 0 THEN "next_item" ELSE "returned"
             ELSE /\ wpc' = "raised"
                  /\ UNCHANGED n_items
    /\ UNCHANGED <<item, contents, item_failure>>
    /\ UNCHANGED <<retryVars, extractVars, fanoutVars, pureVars, scriptVars,
                   analyzerVars>>

\* for item in page.get('Contents', []): extract_gz_content(s3_client,
\* item['Key']) is called with the default max_records
StartItem(k) ==
    /\ wpc = "next_item"
    /\ item' = item + 1
    /\ wpc' = "extracting"
    /\ epc' = "fetch"
    /\ key' = k
    /\ max_records' = DefaultMaxRecords
    /\ stream_read' = <<>>
    /\ extracted_data' = <<>>
    /\ returned' = <<>>
    /\ efailure' = "none"
    /\ UNCHANGED <<n_items, contents, item_failure>>
    /\ UNCHANGED <<retryVars, fanoutVars, pureVars, scriptVars, analyzerVars>>

\* extract_gz_content is over: its rows are appended to contents and the loop
\* goes to the next item, or its error leaves get_s3_folders_and_contents,
\* which has no handler
FinishItem ==
    /\ wpc = "extracting"
    /\ epc \in {"done", "raised"}
    /\ IF epc = "raised"
         THEN /\ wpc' = "raised"
              /\ UNCHANGED contents
         ELSE /\ contents' = contents \o rows_of(item, returned)
              /\ wpc' = IF item < n_items THEN "next_item" ELSE "returned"
    /\ item_failure' = Append(item_failure, efailure)
    /\ epc' = "idle" /\ key' = <<>> /\ max_records' = 0 /\ stream_read' = <<>>
    /\ extracted_data' = <<>> /\ returned' = <<>> /\ efailure' = "none"
    /\ UNCHANGED <<n_items, item>>
    /\ UNCHANGED <<retryVars, fanoutVars, pureVars, scriptVars, analyzerVars>>

NextWalk ==
    \/ \E ok \in BOOLEAN, n \in 0..MaxItems : ListObjects(ok, n)
    \/ \E k \in ItemKeys : StartItem(k)
    \/ \E ok \in BOOLEAN : wpc = "extracting" /\ Fetch(ok)
    \/ \E t \in RecTypes : wpc = "extracting" /\ ReadRecord(t)
    \/ wpc = "extracting" /\ EndOfStream
    \/ wpc = "extracting" /\ StreamError
    \/ \E b \in Bodies : wpc = "extracting" /\ LoopBody(b)
    \/ FinishItem

SpecWalk == InitWalk /\ [][NextWalk]_vars

(***************************************************************************)
(* The reporting scripts: update_sheet_with_retry, update_google_sheets,   *)
(* and update_google_sheet of boto3-s3.py                                  *)
(***************************************************************************)
\* gspread_from_s3.py has one main; boto3-s3.py has two script bodies one
\* after the other, each with its own main() call
Scripts == {"gspread_from_s3", "boto3-s3"}

\* what update() does as func: worksheet.clear() does oc and, if that
\* returned, worksheet.update('A1', data) does ou
update_outcome(oc, ou) == IF oc # "ok" THEN oc ELSE ou

\* the worksheet after update(): a call that raised changed nothing, clear()
\* empties the worksheet and update('A1', data) fills it
update_worksheet(w, oc, ou) ==
    IF oc # "ok" THEN w
    ELSE IF ou # "ok" THEN "cleared"
    ELSE "new"

\* main sheet and one worksheet per folder and subfolder type
sheets_total == 1 + NSubfolderTypes * n_folders

\* the end of a main(): boto3-s3.py goes on with its second script body
after_first_main == IF script = "boto3-s3" THEN "second_main" ELSE "done"

InitSheets ==
    /\ ExtractIdle /\ FanoutIdle /\ PureIdle /\ WalkIdle /\ AnalyzerIdle
    /\ rpc = "idle" /\ max_attempts = 0 /\ attempt = 0 /\ calls = 0
    /\ waits = 0 /\ wait_time = 0 /\ rate_hits = 0 /\ other_errors = 0
    /\ last_outcome = NoValue /\ op_value = NoValue /\ result = NoValue
    /\ raised = NoValue /\ worksheet = "n/a"
    /\ script \in Scripts
    /\ spc = "start"
    /\ n_folders \in 0..MaxSheetFolders
    /\ sheets_done = 0 /\ rows_done = 0
    /\ unguarded = "none" /\ main_error = FALSE

\* main: folders_data = get_s3_folders_and_contents() returns or raises
ListFolders(ok) ==
    /\ spc = "start"
    /\ IF ok THEN spc' = "main_sheet" /\ UNCHANGED main_error
             ELSE spc' = after_first_main /\ main_error' = TRUE
    /\ UNCHANGED <<script, n_folders, sheets_done, rows_done, unguarded>>
    /\ UNCHANGED <<retryVars, extractVars, fanoutVars, pureVars, walkVars, analyzerVars>>

\* update_sheet_with_retry(worksheet, data) is entered for the main sheet or
\* for the next folder sheet, which spreadsheet.worksheet found or, found
\* false, spreadsheet.add_worksheet created: retry_with_backoff(update) starts
StartUpdate(found) ==
    /\ spc \in {"main_sheet", "next_sheet"}
    /\ spc = "main_sheet" => found
    /\ unguarded' = IF found THEN unguarded ELSE "add_worksheet"
    /\ spc' = "updating"
    /\ rpc' = "loop"
    /\ max_attempts' = DefaultMaxAttempts
    /\ attempt' = 0 /\ calls' = 0 /\ waits' = 0 /\ wait_time' = 0
    /\ rate_hits' = 0 /\ other_errors' = 0
    /\ last_outcome' = NoValue /\ op_value' = NoValue /\ result' = NoValue
    /\ raised' = NoValue
    /\ worksheet' = "old"
    /\ UNCHANGED <<script, n_folders, sheets_done, rows_done, main_error>>
    /\ UNCHANGED <<extractVars, fanoutVars, pureVars, walkVars, analyzerVars>>

\* return func() with func = update
UpdateCall(oc, ou) ==
    /\ spc = "updating"
    /\ Invoke(update_outcome(oc, ou), "None", update_worksheet(worksheet, oc, ou))

\* retry_with_backoff(update) returned or raised: the next worksheet, or the
\* except clause of main, or the end of update_google_sheets
FinishUpdate ==
    /\ spc = "updating"
    /\ rpc \in {"returned", "raised"}
    /\ IF rpc = "returned"
         THEN /\ sheets_done' = sheets_done + 1
              /\ spc' = IF sheets_done + 1 < sheets_total THEN "next_sheet"
                        ELSE after_first_main
              /\ UNCHANGED main_error
         ELSE /\ main_error' = TRUE
              /\ spc' = after_first_main
              /\ UNCHANGED sheets_done
    /\ rpc' = "idle" /\ max_attempts' = 0 /\ attempt' = 0 /\ calls' = 0
    /\ waits' = 0 /\ wait_time' = 0 /\ rate_hits' = 0 /\ other_errors' = 0
    /\ last_outcome' = NoValue /\ op_value' = NoValue /\ result' = NoValue
    /\ raised' = NoValue /\ worksheet' = "n/a"
    /\ UNCHANGED <<script, n_folders, rows_done, unguarded>>
    /\ UNCHANGED <<extractVars, fanoutVars, pureVars, walkVars, analyzerVars>>

\* boto3-s3.py, second body: main calls get_s3_folders and
\* update_google_sheet, whose first write is worksheet.clear()
DirectClear(listed, o) ==
    /\ spc = "second_main"
    /\ IF ~listed
         THEN /\ main_error' = TRUE /\ spc' = "done"
              /\ UNCHANGED unguarded
         ELSE /\ unguarded' = "clear"
              /\ IF o = "ok" THEN spc' = "appending" /\ UNCHANGED main_error
                             ELSE spc' = "done" /\ main_error' = TRUE
    /\ rows_done' = 0
    /\ UNCHANGED <<script, n_folders, sheets_done>>
    /\ UNCHANGED <<retryVars, extractVars, fanoutVars, pureVars, walkVars, analyzerVars>>

\* worksheet.append_row(...): the two header rows, then one row per folder
AppendRow(o) ==
    /\ spc = "appending"
    /\ unguarded' = "append_row"
    /\ IF o = "ok"
         THEN /\ rows_done' = rows_done + 1
              /\ spc' = IF rows_done + 1 < HeaderRows + n_folders
                          THEN "appending" ELSE "done"
              /\ UNCHANGED main_error
         ELSE /\ main_error' = TRUE
              /\ spc' = "done"
              /\ UNCHANGED rows_done
    /\ UNCHANGED <<script, n_folders, sheets_done>>
    /\ UNCHANGED <<retryVars, extractVars, fanoutVars, pureVars, walkVars, analyzerVars>>

NextSheets ==
    \/ \E ok \in BOOLEAN : ListFolders(ok)
    \/ \E found \in BOOLEAN : StartUpdate(found)
    \/ spc = "updating" /\ LoopHead
    \/ \E oc \in Outcomes, ou \in Outcomes : UpdateCall(oc, ou)
    \/ \E j \in Jitter : spc = "updating" /\ Backoff(j)
    \/ FinishUpdate
    \/ \E listed \in BOOLEAN, o \in Outcomes : DirectClear(listed, o)
    \/ \E o \in Outcomes : AppendRow(o)

SpecSheets == InitSheets /\ [][NextSheets]_vars


(***************************************************************************)
(* ServiceUtilizationAnalyzer: generate_report and the methods it calls    *)
(***************************************************************************)
\* The metrics are those the decisions read by name, and GetRequests for the
\* ones that only enter sum(utilization_data.values()).
\* what cloudwatch.get_metric_statistics does for a metric: it raises, it
\* answers without datapoints, or Datapoints[0]['Sum'] is a number
Sums == {0, PutThreshold - 1, PutThreshold, BytesThreshold}
Datapoints == {[kind |-> "failed", sum |-> 0], [kind |-> "empty", sum |-> 0]}
              \cup [kind : {"sum"}, sum : Sums]

\* utilization_data = defaultdict(int): a metric never assigned reads 0
metric_value(dp) == IF dp.kind = "sum" THEN dp.sum ELSE 0

\* config_status['Versioning'] and utilization_data['PutRequests'] < 100
versioning_unused(cs, ud) ==
    cs["Versioning"] /\ ud["PutRequests"] < PutThreshold

\* config_status['TransferAcceleration'] and
\* utilization_data['BytesUploaded'] < 1024 * 1024 * 100
acceleration_unused(cs, ud) ==
    cs["TransferAcceleration"] /\ ud["BytesUploaded"] < BytesThreshold

\* config_status['Analytics'] and sum(utilization_data.values()) < 1000
analytics_unused(cs, ud) ==
    cs["Analytics"] /\
    ud["GetRequests"] + ud["PutRequests"] + ud["BytesUploaded"]
        < ActivityThreshold

\* the list underutilized is not empty
underutilized(cs, ud) ==
    versioning_unused(cs, ud) \/ acceleration_unused(cs, ud)
        \/ analytics_unused(cs, ud)

InitAnalyzer ==
    /\ RetryIdle /\ ExtractIdle /\ FanoutIdle /\ PureIdle /\ ScriptIdle
    /\ WalkIdle
    /\ apc = "start"
    /\ n_buckets = 0
    /\ bucket = 0
    /\ NoBucket

\* buckets = self.s3_client.list_buckets()['fb-2024-25-12']: the call raises,
\* or the answer has no entry 'fb-2024-25-12' and the subscript raises
\* KeyError (the answer of the S3 service lists its buckets under 'Buckets'),
\* or the answer of the client holds a list of n buckets under that key
ListBuckets(has_key, n) ==
    /\ apc = "start"
    /\ IF has_key
         THEN /\ n_buckets' = n
              /\ apc' = IF n > 0 THEN "utilization" ELSE "done"
         ELSE /\ apc' = "error"
              /\ UNCHANGED n_buckets
    /\ UNCHANGED <<bucket, datapoint, utilization_data, config_status,
                   response, actions_taken>>
    /\ UNCHANGED <<retryVars, extractVars, fanoutVars, pureVars, scriptVars,
                   walkVars>>

\* for bucket in buckets: analyze_bucket_utilization(bucket_name), where dp
\* is what get_metric_statistics does for each metric
AnalyzeUtilization(dp) ==
    /\ apc = "utilization"
    /\ bucket' = bucket + 1
    /\ datapoint' = dp
    /\ utilization_data' = [m \in Metrics |-> metric_value(dp[m])]
    /\ config_status' = [f \in Features |-> FALSE]
    /\ response' = "none"
    /\ actions_taken' = {}
    /\ apc' = "configurations"
    /\ UNCHANGED n_buckets
    /\ UNCHANGED <<retryVars, extractVars, fanoutVars, pureVars, scriptVars,
                   walkVars>>

\* analyze_bucket_configurations(bucket_name): get_bucket_versioning raising
\* leaves every entry False; then the list underutilized is built and, when
\* it is not empty, the operator is asked
AnalyzeConfigurations(ok, cs) ==
    LET status == IF ok THEN cs ELSE [f \in Features |-> FALSE] IN
    /\ apc = "configurations"
    /\ config_status' = status
    /\ apc' = IF underutilized(status, utilization_data)
                THEN "prompt" ELSE "recommend"
    /\ UNCHANGED <<n_buckets, bucket, datapoint, utilization_data, response,
                   actions_taken>>
    /\ UNCHANGED <<retryVars, extractVars, fanoutVars, pureVars, scriptVars,
                   walkVars>>

\* response = input(...); if response.lower() == 'yes'
Prompt(r) ==
    /\ apc = "prompt"
    /\ response' = r
    /\ apc' = IF r = "yes" THEN "disable" ELSE "recommend"
    /\ UNCHANGED <<n_buckets, bucket, datapoint, utilization_data,
                   config_status, actions_taken>>
    /\ UNCHANGED <<retryVars, extractVars, fanoutVars, pureVars, scriptVars,
                   walkVars>>

\* disable_unused_features(bucket_name, config_status, utilization_data):
\* put_bucket_versioning and put_bucket_accelerate_configuration with Status
\* Suspended, each in its own try
DisableUnusedFeatures(v_ok, a_ok) ==
    /\ apc = "disable"
    /\ actions_taken' =
          {f \in {"Versioning"} :
               versioning_unused(config_status, utilization_data) /\ v_ok}
          \cup
          {f \in {"TransferAcceleration"} :
               acceleration_unused(config_status, utilization_data) /\ a_ok}
    /\ apc' = "recommend"
    /\ UNCHANGED <<n_buckets, bucket, datapoint, utilization_data,
                   config_status, response>>
    /\ UNCHANGED <<retryVars, extractVars, fanoutVars, pureVars, scriptVars,
                   walkVars>>

\* self.print_recommendations(...) and the next bucket, or the end
Recommend ==
    /\ apc = "recommend"
    /\ apc' = IF bucket < n_buckets THEN "utilization" ELSE "done"
    /\ UNCHANGED <<n_buckets, bucket, datapoint, utilization_data,
                   config_status, response, actions_taken>>
    /\ UNCHANGED <<retryVars, extractVars, fanoutVars, pureVars, scriptVars,
                   walkVars>>

NextAnalyzer ==
    \/ \E has_key \in BOOLEAN, n \in 0..MaxBuckets : ListBuckets(has_key, n)
    \/ \E dp \in [Metrics -> Datapoints] : AnalyzeUtilization(dp)
    \/ \E ok \in BOOLEAN, cs \in [Features -> BOOLEAN] :
          AnalyzeConfigurations(ok, cs)
    \/ \E r \in {"yes", "no", "y"} : Prompt(r)
    \/ \E v_ok \in BOOLEAN, a_ok \in BOOLEAN : DisableUnusedFeatures(v_ok, a_ok)
    \/ Recommend

SpecAnalyzer == InitAnalyzer /\ [][NextAnalyzer]_vars

(***************************************************************************)
(* Claims about retry_with_backoff                                         *)
(***************************************************************************)
RetryDone == rpc \in {"returned", "raised"}

\* lower bound of the i-th wait (i = 0, 1, ...), in ticks: min(300, 2^i)
WaitLow(i) == Min(CAP, Pow2(i)) * JitterScale
\* min(300, 2^i + 1), in ticks
WaitHigh(i) == Min(CAP, Pow2(i) + 1) * JitterScale

\* the part of C1 about the call's result and its counts
ReturnsAfterRateLimits ==
    rpc = "returned" =>
        /\ rate_hits < max_attempts
        /\ other_errors = 0
        /\ result = op_value /\ result \in Values
        /\ calls = rate_hits + 1
        /\ waits = rate_hits

\* C1 as stated: an operation that is rate limited k < max_attempts times and
\* then succeeds makes the call return its value after k+1 invocations and
\* k waits, the i-th wait being >= min(300, 2^i) and < min(300, 2^i + 1).
C1_Original ==
    /\ ReturnsAfterRateLimits
    /\ waits > 0 => /\ wait_time >= WaitLow(waits - 1)
                    /\ wait_time < WaitHigh(waits - 1)

\* C1 amended: as C1, with the i-th wait >= min(300, 2^i) and
\* <= min(300, 2^i + 1); the lower bounds min(300, 2^i) are non-decreasing.
C1_ReturnsAfterKWaits ==
    /\ ReturnsAfterRateLimits
    /\ waits > 0 => /\ wait_time >= WaitLow(waits - 1)
                    /\ wait_time <= WaitHigh(waits - 1)
    /\ waits > 1 => WaitLow(waits - 2) <= WaitLow(waits - 1)

C1_Witness ==
    /\ rpc = "returned" /\ max_attempts = DefaultMaxAttempts
    /\ rate_hits = 4 /\ waits = 4 /\ wait_time >= 8 * JitterScale

\* the safety part of C2: an operation that is rate limited on each of its
\* first max_attempts invocations makes the call fail with the retry-exhausted
\* error without returning a value; the operation is invoked max_attempts
\* times and never more.
C2_ExhaustedSafety ==
    /\ calls <= max_attempts
    /\ rate_hits >= max_attempts =>
          /\ rpc # "returned" /\ result = NoValue
          /\ calls = max_attempts
          /\ rpc = "raised" => raised = "exhausted"
    /\ raised = "exhausted" => rpc = "raised" /\ calls = max_attempts
                                /\ rate_hits = max_attempts

\* C2, with its termination: the safety part holds in every state, and every
\* call ends by returning or raising.
C2_Exhausted == [](C2_ExhaustedSafety) /\ <>RetryDone

C2_Witness ==
    /\ rpc = "raised" /\ raised = "exhausted"
    /\ max_attempts = DefaultMaxAttempts /\ calls = DefaultMaxAttempts

\* C3: an invocation failing with an error other than the rate-limited signal
\* (APIError with another status, or another exception type) ends the call
\* with that error: no wait follows it and the operation is not invoked again,
\* however many rate-limited failures came before.
C3_OtherErrorPropagates ==
    other_errors > 0 =>
        /\ rpc = "raised" /\ raised = last_outcome
        /\ last_outcome \in {"api500", "exc"}
        /\ other_errors = 1
        /\ calls = rate_hits + 1
        /\ waits = rate_hits
        /\ result = NoValue

C3_Witness ==
    /\ rpc = "raised" /\ raised = "api500" /\ rate_hits = 2 /\ waits = 2

(***************************************************************************)
(* Claims about extract_gz_content                                         *)
(***************************************************************************)
ExtractDone == epc = "done"

\* C4: extract_gz_content returns at most max_records records, whatever the
\* container holds and whatever its kind, and none when max_records = 0.
C4_AtMostBudget ==
    /\ Len(extracted_data) <= max_records
    /\ ExtractDone => /\ Len(returned) <= max_records
                      /\ max_records = 0 => returned = <<>>

C4_Witness ==
    /\ ExtractDone /\ efailure = "none"
    /\ max_records = 2 /\ Len(returned) = 2 /\ Len(stream_read) = 3

\* the extension is the suffix of the key: its last piece
has_suffix(k, ext) == Len(k) > 0 /\ k[Len(k)] = ext

\* the container kind a key has by its suffix
SuffixKind(k) ==
    IF has_suffix(k, ".wat.gz") THEN "WAT"
    ELSE IF has_suffix(k, ".wet.gz") THEN "WET"
    ELSE IF has_suffix(k, ".warc.gz") THEN "WARC"
    ELSE "NONE"

\* a record content that is not corrupted, as the claims put it: JSON in a
\* WAT record, valid UTF-8 in a WAT or WET record
WellFormed(kind, b) ==
    CASE kind = "WAT" -> b = "json"
      [] kind = "WET" -> b \in {"json", "text"}
      [] OTHER -> b \in Bodies

\* the positions of the well-formed records of the kind's type in a stream
RECURSIVE ValidPositions(_, _, _)
ValidPositions(stream, kind, i) ==
    IF i > Len(stream) THEN <<>>
    ELSE IF /\ stream[i].rec_type = selected_type(kind)
            /\ WellFormed(kind, stream[i].body)
         THEN <<i>> \o ValidPositions(stream, kind, i + 1)
         ELSE ValidPositions(stream, kind, i + 1)

Take(seq, n) == SubSeq(seq, 1, Min(n, Len(seq)))

Sources(data) == [j \in 1..Len(data) |-> data[j].src]

\* C5: a record of the selected kind whose content does not decode is skipped
\* and nothing else is: the failure of a record never ends the call, and
\* between two records and at the end the output is exactly the well-formed
\* records of the selected kind read so far, in stream order, up to the budget.
C5_SkipsOnlyMalformed ==
    LET kind == branch(key)
        expected == Take(ValidPositions(stream_read, kind, 1), max_records)
    IN /\ efailure # "record"
       /\ epc = "iter" => Sources(extracted_data) = expected
       /\ (ExtractDone /\ efailure = "none" /\ kind # "NONE") =>
              Sources(returned) = expected

\* a malformed WAT record between two valid ones: both valid ones are returned
C5_Witness ==
    /\ ExtractDone /\ efailure = "none" /\ branch(key) = "WAT"
    /\ Len(stream_read) = 3
    /\ stream_read[1] = [rec_type |-> "metadata", body |-> "json"]
    /\ stream_read[2].rec_type = "metadata"
    /\ stream_read[2].body \in {"text", "bytes"}
    /\ stream_read[3] = [rec_type |-> "metadata", body |-> "json"]
    /\ Sources(returned) = <<1, 3>>

\* C6: the kind is the suffix of the key: every record returned for a key
\* ending in .wat.gz (.wet.gz, .warc.gz) has Type WAT (WET, WARC) and comes
\* from a metadata (conversion, response) record, and a key with none of the
\* three suffixes yields no records.
C6_KindBySuffix ==
    ExtractDone =>
        LET kind == SuffixKind(key) IN
        /\ kind = "NONE" => returned = <<>>
        /\ \A j \in 1..Len(returned) :
              /\ returned[j].Type = kind
              /\ stream_read[returned[j].src].rec_type = selected_type(kind)

(***************************************************************************)
(* Claims about CommonCrawlProcessor                                       *)
(***************************************************************************)
FanoutDone == fpc = "done"

\* the snapshot of the loop variable index has been processed to its end
SnapshotDone == index >= 1 /\ fpc \in {"index_loop", "done"}

\* C7: a transport error or a non-200 response never raises out of
\* query_index, which returns an empty list, and process_with_dask goes on:
\* the run never fails, every snapshot ends with all its patterns queried and
\* all its folders handed to save_to_s3, and the run ends after the last
\* snapshot only.
C7_QueryNeverRaises ==
    /\ fpc # "failed"
    /\ \A p \in Patterns :
          (task[p] = "done" /\ qfail[p]) =>
              qres[p] = [raised |-> FALSE, records |-> <<>>]
    /\ SnapshotDone =>
          /\ \A p \in 1..target_urls : queries[p] >= 1
          /\ \A f \in 1..NFolders : batches[f] # "none"
    /\ FanoutDone => index = indexes

\* a run with a failed query has gone through both snapshots, the last of
\* which still wrote a batch
C7_Witness ==
    /\ FanoutDone /\ had_failure /\ target_urls = 2 /\ indexes = 2
    /\ batches[1] = "nonempty"

\* C8: one run issues exactly |P| x |S| index queries, one per
\* (pattern, snapshot) pair, however many categorizers there are.
C8_OneQueryPerPair ==
    SnapshotDone => \A p \in 1..target_urls : queries[p] = 1

SaveReturned == fpc = "folder_loop" /\ save_result # "none"

\* C10: save_to_s3 called with an empty record set issues no put_object and
\* returns at once with nothing written.
C10_EmptySaveWritesNothing ==
    (SaveReturned /\ all_records = <<>>) =>
        /\ save_result = "nothing"
        /\ puts[folder] = 0

C10_Witness ==
    /\ SaveReturned /\ all_records = <<>> /\ save_result = "nothing"
    /\ index = 2 /\ folder = 2 /\ puts[1] = 1

\* C11: within one snapshot a batch is flushed only after all pattern queries
\* of that snapshot have completed: once a put_object was issued for the
\* snapshot, no index query for it is in flight.
C11_NoQueryAfterFirstFlush ==
    (\E f \in 1..NFolders : puts[f] >= 1) => Running = {}

\* C12: snapshots are processed one at a time in the order of self.indexes:
\* index only moves to the next position of the list, and it moves only when
\* no query of the snapshot it leaves is pending or in flight and every folder
\* of that snapshot was handed to save_to_s3; queries and put_object calls
\* happen only inside a snapshot of the list.
C12_SnapshotsInOrder ==
    [][/\ index' >= index
       /\ index' # index =>
             /\ index' = index + 1 /\ index' <= indexes
             /\ \A p \in Patterns : task[p] = "idle" /\ task'[p] = "idle"
             /\ index >= 1 => \A f \in 1..NFolders : batches[f] # "none"
       /\ (index' = index /\ (queries' # queries \/ puts' # puts)) =>
             index \in 1..indexes]_vars

\* the second snapshot has queries in flight after the first one wrote
C12_Witness ==
    /\ index = 2 /\ fpc = "compute" /\ target_urls = 2
    /\ Cardinality(Running) = 2 /\ folder = 3 /\ puts[1] = 1

(***************************************************************************)
(* Claims about the categorizers                                           *)
(***************************************************************************)
\* the predicate a folder's categorizer is meant to apply
Keeps(f, r) ==
    CASE FolderNames[f] = "explore_crawl" -> r.status = "200"
      [] FolderNames[f] = "processed_data" -> r.mime = "text/html"
      [] OTHER -> TRUE

\* the positions of the records of a list that a folder keeps, in order
RECURSIVE Ascending(_)
Ascending(S) ==
    IF S = {} THEN <<>>
    ELSE LET m == CHOOSE x \in S : \A y \in S : x <= y
         IN <<m>> \o Ascending(S \ {m})

KeptPositions(f, list) ==
    Ascending({i \in 1..Len(list) : Keeps(f, list[i])})

\* C13: categorization is a pure function of the record sequence: the
\* status==200 and mime==text/html categorizers return exactly the records
\* that satisfy the predicate, each once, in their original order, the
\* pass-through categorizers return the sequence unchanged, and the input
\* list is not modified.
C13_CategorizerIsFilter ==
    cpc = "done" =>
        LET pos == KeptPositions(cat_folder, cat_in) IN
        /\ Len(cat_out) = Len(pos)
        /\ \A k \in 1..Len(pos) : cat_out[k] = cat_in[pos[k]]
        /\ FolderNames[cat_folder] \in {"process_crawl", "raw_data"} =>
              cat_out = cat_in
        /\ cat_list = cat_in

C13_Witness ==
    /\ cpc = "done" /\ FolderNames[cat_folder] = "explore_crawl"
    /\ Len(cat_in) = 3
    /\ cat_in[1] = [status |-> "200", mime |-> "application/pdf"]
    /\ cat_in[2].status = "404"
    /\ cat_in[3] = [status |-> "200", mime |-> "text/html"]
    /\ cat_out = <<cat_in[1], cat_in[3]>>

(***************************************************************************)
(* Claims about the end-to-end run                                         *)
(***************************************************************************)
\* the records of a text that folder f keeps, in order
RECURSIVE KeptOf(_, _)
KeptOf(f, text) ==
    IF text = <<>> THEN <<>>
    ELSE LET r == [status |-> Head(text).status, mime |-> Head(text).mime]
         IN (IF Keeps(f, r) THEN <<r>> ELSE <<>>) \o KeptOf(f, Tail(text))

\* the records the index holds for snapshot s under patterns p..target_urls
\* that folder f keeps
RECURSIVE Expected(_, _, _)
Expected(f, s, p) ==
    IF p > target_urls THEN <<>>
    ELSE KeptOf(f, StubText(stub, p, s)) \o Expected(f, s, p + 1)

\* a batch was written, under a key of its folder and snapshot, and it holds
\* the records of the snapshot the folder keeps; keys of two pairs differ
BatchAndKey ==
    /\ save_result = "saved" =>
          /\ all_records = Expected(folder, index, 1)
          /\ put_key.folder_name = FolderNames[folder]
          /\ put_key.index = index
          /\ put_key.timestamp \in Timestamps
    /\ \A f1, f2 \in 1..NFolders, i1, i2 \in 1..MaxSnapshots,
          t1, t2 \in Timestamps :
          <<f1, i1>> # <<f2, i2>> =>
              object_key(f1, i1, t1) # object_key(f2, i2, t2)

InScenario == stub = "scenario" /\ target_urls = 2 /\ save_result = "saved"

\* C14 as stated: in the scenario of 2 patterns whose queries return 3 records
\* with statuses 200, 200, 404, a batch of all records has 3 records and a
\* batch of the status==200 records has 2.
C14_Original ==
    /\ BatchAndKey
    /\ InScenario =>
          /\ FolderNames[folder] \in {"process_crawl", "raw_data"} =>
                Len(all_records) = 3
          /\ FolderNames[folder] = "explore_crawl" => Len(all_records) = 2

\* C14: with a deterministic index that never fails, the batch written for a
\* folder and a snapshot holds exactly the records returned for the snapshot
\* by all patterns that the folder's categorizer keeps, under the key
\* folder/snapshot/timestamp, keys of different pairs differ, and in the
\* scenario a batch of all records has 6 records and a batch of the
\* status==200 records has 4.
C14_BatchesAndKeys ==
    /\ BatchAndKey
    /\ InScenario =>
          /\ FolderNames[folder] \in {"process_crawl", "raw_data"} =>
                Len(all_records) = 6
          /\ FolderNames[folder] = "explore_crawl" => Len(all_records) = 4

C14_Witness ==
    /\ InScenario /\ index = 2 /\ FolderNames[folder] = "explore_crawl"
    /\ Len(all_records) = 4
    /\ put_key = [folder_name |-> "explore_crawl", index |-> 2,
                  timestamp |-> "20250101_120001"]

(***************************************************************************)
(* Claims about sink-write failures and the end of the run                 *)
(***************************************************************************)
\* C15: a failure of put_object is reported to the caller of save_to_s3: what
\* the caller gets after a failed write differs from what it gets after a
\* successful one; and a call issues at most one put_object.
C15_WriteFailureReported ==
    /\ save_result = "put_failed" => save_return # save_outcome(TRUE)
    /\ \A f \in 1..NFolders : puts[f] <= 1

\* the steps of the run that are left: per folder a NextFolder, a start and an
\* end per query and a Save, per snapshot a NextIndex, its folders and the
\* NextFolder that ends the folder loop, and the OpenClient and last NextIndex
TaskSteps(p) == CASE task[p] = "pending" -> 2
                  [] task[p] = "running" -> 1
                  [] OTHER -> 0

RECURSIVE SumTaskSteps(_)
SumTaskSteps(p) == IF p > MaxPatterns THEN 0
                   ELSE TaskSteps(p) + SumTaskSteps(p + 1)

FolderSteps == 2 + 2 * target_urls
SnapshotSteps == 2 + NFolders * FolderSteps
StepsLeft ==
    CASE fpc = "start" -> 2 + indexes * SnapshotSteps
      [] fpc = "index_loop" -> 1 + (indexes - index) * SnapshotSteps
      [] fpc = "folder_loop" ->
            2 + (indexes - index) * SnapshotSteps
              + (NFolders - folder) * FolderSteps
      [] fpc = "compute" ->
            3 + (indexes - index) * SnapshotSteps
              + (NFolders - folder) * FolderSteps + SumTaskSteps(1)
      [] OTHER -> 0

C17_EndsWithSummary ==
    fpc = "done" => last_print = "summary"

(***************************************************************************)
(* Claims about exponential_backoff                                        *)
(***************************************************************************)
\* C18: the wait of attempt number a >= 0 is min(300, 2^a + jitter) with a
\* jitter in [0, 1]; no wait exceeds the cap of 300 seconds, and for a >= 9
\* the wait is exactly 300.
C18_WaitFormulaAndCap ==
    waits > 0 =>
        LET a == attempt - 1
            cap == CAP * JitterScale
        IN /\ a >= 0
           /\ \E j \in 0..JitterScale :
                 wait_time = IF Pow2(a) * JitterScale + j < cap
                               THEN Pow2(a) * JitterScale + j ELSE cap
           /\ wait_time <= cap
           /\ a >= 9 => wait_time = cap

C18_Witness ==
    /\ waits = 10 /\ attempt = 10 /\ rpc = "loop"
    /\ wait_time = CAP * JitterScale

(***************************************************************************)
(* Claims about the Content field and the record budget                    *)
(***************************************************************************)
\* C19: the Content field of an output record, for each of the three kinds,
\* is at most 500 characters long and is a prefix of the record's decoded
\* text: it starts at the text's first character and ends inside the text.
C19_ContentIsShortPrefix ==
    tpc = "done" =>
        /\ t_kind \in {"WAT", "WET", "WARC"}
        /\ t_content.hi - t_content.lo + 1 <= TRUNCATE
        /\ t_content.lo = 1
        /\ t_content.hi >= 0 /\ t_content.hi <= t_len

C19_Witness ==
    /\ tpc = "done" /\ t_kind = "WARC" /\ t_len = TRUNCATE + 3
    /\ t_content = [lo |-> 1, hi |-> TRUNCATE]

\* C20: decoding stops as soon as max_records output records were produced:
\* once the budget is reached no further record is read from the stream, so
\* the last record read is the source of the max_records-th output record.
C20_NoReadAfterBudget ==
    (max_records >= 1 /\ Len(extracted_data) >= max_records) =>
        Len(stream_read) = extracted_data[max_records].src

(***************************************************************************)
(* Claims about query_index on a body of several lines                     *)
(***************************************************************************)
\* the records of the well-formed lines of a body, in body order
RECURSIVE WellFormedRecords(_)
WellFormedRecords(text) ==
    IF text = <<>> THEN <<>>
    ELSE (IF Head(text).type = "json"
            THEN <<[status |-> Head(text).status, mime |-> Head(text).mime]>>
            ELSE <<>>) \o WellFormedRecords(Tail(text))

\* C21: on a 200 response query_index returns exactly the records of the
\* well-formed lines of the body, in body order: an empty line is passed
\* over and a malformed line is skipped alone.
C21_MalformedLineSkippedAlone ==
    (qpc = "done" /\ q_resp.kind = "http" /\ q_resp.status_code = 200) =>
        /\ ~q_out.raised
        /\ q_out.records = WellFormedRecords(q_resp.text)

SpillThresholds == 1..(MaxPatterns - 1)

\* C23: whatever the spill threshold, a snapshot's results that exceed it are
\* flushed in partial batches: the records held for one save never exceed the
\* threshold unless more than one put_object was issued for them.
C23_PartialFlushAboveThreshold ==
    \A T \in SpillThresholds :
        (fpc = "folder_loop" /\ Len(all_records) > T) => puts[folder] > 1

(***************************************************************************)
(* Claims about the reporting spreadsheet                                  *)
(***************************************************************************)
\* C24: no run of a reporting script issues a worksheet clear, update or
\* append outside an operation run by retry_with_backoff.
C24_SheetWritesInsideRetrier ==
    unguarded \notin {"clear", "update", "append_row"}

\* C28: when update_sheet_with_retry ends, by returning or by raising, the
\* worksheet holds the new data or the content it had before the call, never
\* a cleared or partly written sheet; when it returns, the new data.
C28_WorksheetNewOrOld ==
    (spc = "updating" /\ rpc \in {"returned", "raised"}) =>
        /\ worksheet \in {"old", "new"}
        /\ rpc = "returned" => worksheet = "new"

(***************************************************************************)
(* Claims about the walk over the storage objects                          *)
(***************************************************************************)
\* C25: extract_gz_content never raises; when the fetch (a missing object
\* included) or the gzip/archive stream fails it returns the empty list, and
\* get_s3_folders_and_contents then goes on with the next storage object (or
\* returns after the last one) with the rows gathered so far untouched.
C25_ExtractNeverRaises ==
    /\ [](epc # "raised")
    /\ []((epc = "done" /\ efailure # "none") => returned = <<>>)
    /\ [][(wpc = "extracting" /\ epc = "done" /\ efailure # "none"
             /\ wpc' # "extracting")
            => /\ wpc' = IF item < n_items THEN "next_item" ELSE "returned"
               /\ contents' = contents]_vars

\* a fetch failed for the first object and the second one gave a row
C25_Witness ==
    /\ wpc = "returned"
    /\ item_failure = <<"fetch", "none">>
    /\ contents = <<2>>

(***************************************************************************)
(* Claims about the batches of one snapshot                                *)
(***************************************************************************)
\* C26: within one snapshot a non-empty filtered batch (explore_crawl,
\* processed_data) comes with non-empty pass-through batches (process_crawl,
\* raw_data), of which it is a subsequence, and the two pass-through batches
\* are equal, whatever the index answers.
C26_OneResultPerSnapshot ==
    LET PassThrough == {f \in 1..NFolders :
                           FolderNames[f] \in {"process_crawl", "raw_data"}}
        Filtered == (1..NFolders) \ PassThrough
    IN
    /\ \A f \in Filtered, g \in PassThrough :
          (batches[f] = "nonempty" /\ batches[g] # "none")
              => batches[g] = "nonempty"
    /\ \A f \in PassThrough, g \in PassThrough :
          (batches[f] # "none" /\ batches[g] # "none")
              => batches[f] = batches[g]

(***************************************************************************)
(* Claims about the waits of retry_with_backoff                            *)
(***************************************************************************)
\* C27: a call of retry_with_backoff that has ended after at least one
\* invocation performed exactly (invocations - 1) waits: every wait was
\* followed by another invocation, and no wait precedes the exhausted error.
C27_WaitsBetweenInvocations ==
    (rpc \in {"returned", "raised"} /\ calls >= 1) => waits = calls - 1

C30_ClientClosedAtEnd ==
    /\ fpc \in {"done", "failed"} => ~client_open
    /\ fpc \in {"index_loop", "folder_loop", "compute"} => client_open

\* an error left the categorizer of explore_crawl in the second snapshot
C30_Witness ==
    /\ fpc = "failed" /\ ~client_open
    /\ index = 2 /\ FolderNames[folder] = "explore_crawl"
    /\ \E p \in Patterns : task[p] = "pending"

====
